---------------------------- MODULE Spec2Model ----------------------------
(***************************************************************************)
(* Model of the MMT night ephemeris (src/MMTEphem.py, class MMTEphem, and  *)
(* src/original_version/MMTEphem.py, class ephem) and of the observability *)
(* curves built from a night (original_version: ObjEphem, airmassCurve,    *)
(* parAngleCurve, mmtAltAz, mmtParAngle, alt2airmass, targetObservability).*)
(*                                                                         *)
(* Numbers.  An instant is an integer number of minutes of UT since        *)
(* midnight of day 0 (a pyephem date string is UT).  An angle is an        *)
(* integer number of arc minutes.  An airmass is an integer number of      *)
(* hundredths.                                                             *)
(*                                                                         *)
(* The pyephem library is not part of the repository.  It is modelled by   *)
(* its contract: an Observer holds a date and a horizon, next_setting and  *)
(* next_rising return the first instant after Observer.date at which the   *)
(* body's altitude crosses Observer.horizon downward and upward (or        *)
(* raise), leaving the Observer as it was, and FixedBody.compute reads     *)
(* Observer.date.  The altitude curves of the Sun, the Moon and a star are *)
(* periodic triangle waves.                                                *)
(*                                                                         *)
(* The model's clock is scaled down: an hour of its day lasts Hour minutes *)
(* (60 on the real clock), so that a night holds a few tens of 5-minute    *)
(* samples.  A time of day "hh:mm" is the minute hh * Hour + mm * Hour/60. *)
(***************************************************************************)
EXTENDS Integers, Sequences, FiniteSets

VARIABLES pc, version, arg, self, mmt, queries, err, built, curves

vars == <<pc, version, arg, self, mmt, queries, err, built, curves>>

(***************************************************************************)
(* Bounds of the model.                                                    *)
(***************************************************************************)
\* dates given to the constructors are the days 0..MaxDay
MaxDay == 1
\* number of ObjEphem objects built from one night
MaxCurves == 3
\* minutes in an hour of the model's clock
Hour == 6

None == 0 - 1

(***************************************************************************)
(* The ephemeris provider (pyephem).                                       *)
(***************************************************************************)
DayLen == 24 * Hour
MoonDay == 24 * Hour + 5
StarDay == 24 * Hour - 1
\* 19:00 UT is local noon at the site (UT - 7 h)
Noon == 19 * Hour
\* search window of next_rising / next_setting
Window == 2 * MoonDay

Min(S) == CHOOSE x \in S : \A y \in S : x <= y

\* distance, in minutes, of instant t from the nearest multiple of period
\* after phase
Dist(t, phase, period) ==
    LET m == (t - phase) % period
    IN  IF 2 * m <= period THEN m ELSE period - m

\* the Sun culminates at local noon; its noon altitude drifts from one solar
\* day to the next (the solar day of t runs from local midnight to local
\* midnight)
SunAlt(t) ==
    LET k == (t - Noon + DayLen \div 2) \div DayLen
    IN  (2606 + 100 * k) - (600 * Dist(t, Noon, DayLen)) \div Hour

MoonAlt(t) == 3000 - (600 * Dist(t, 3 * Hour, MoonDay)) \div Hour

Alt(body, t) == IF body = "Sun" THEN SunAlt(t) ELSE MoonAlt(t)

\* ephem.degrees(string): the horizon strings the code assigns
HorizonArcmin(h) == IF h = "-0:34" THEN 0 - 34 ELSE 0 - 12 * 60

Sets(body, h, t) == Alt(body, t - 1) >= h /\ Alt(body, t) < h
Rises(body, h, t) == Alt(body, t - 1) < h /\ Alt(body, t) >= h

\* Observer.next_setting(body) / Observer.next_rising(body): None stands for
\* the library raising (NeverUpError, AlwaysUpError: CircumpolarError)
next_setting(obs, body) ==
    LET C == {t \in (obs.date + 1)..(obs.date + Window) :
                  Sets(body, HorizonArcmin(obs.horizon), t)}
    IN  IF C = {} THEN None ELSE Min(C)

next_rising(obs, body) ==
    LET C == {t \in (obs.date + 1)..(obs.date + Window) :
                  Rises(body, HorizonArcmin(obs.horizon), t)}
    IN  IF C = {} THEN None ELSE Min(C)



\* FixedBody.compute(observer) for a star at (ra, dec): the position at
\* observer.date.  The star culminates at Transit(ra) every sidereal day, at
\* altitude Peak(dec)
Transit(ra) == IF ra = "8:00:00" THEN 171
               ELSE IF ra = "8:30:00" THEN 174
               ELSE 183

\* 90 degrees - |latitude - dec|, the latitude being 31:41:20
Peak(dec) == IF dec = "31:41:20" THEN 90 * 60
             ELSE IF dec = "30:27:20" THEN 90 * 60 - 74
             ELSE IF dec = "11:41:20" THEN 70 * 60
             ELSE 90 * 60 - 101

compute(ra, dec, observer) ==
    LET d == Dist(observer.date, Transit(ra), StarDay)
        h == ((observer.date - Transit(ra) + StarDay \div 2) % StarDay)
                 - StarDay \div 2
    IN  [alt |-> Peak(dec) - (600 * d) \div Hour,
         az |-> IF h < 0 THEN 90 * 60 ELSE 270 * 60,
         parallactic_angle |-> 15 * h]

(***************************************************************************)
(* Date values.  A string is the sequence of its whitespace-separated      *)
(* words; a word is a calendar date ("2016/02/09", day n) or a time of day *)
(* ("19:00", minute n of the day).  A non-string is a datetime.            *)
(***************************************************************************)
DateWord(d) == [k |-> "date", n |-> d, mi |-> 0]
TimeWord(h, mi) == [k |-> "time", n |-> h, mi |-> mi]
TimeOfDay(w) == w.n * Hour + (w.mi * Hour) \div 60
Str(words) == [type |-> "str", s |-> words, t |-> None]
Datetime(t) == [type |-> "datetime", s |-> <<>>, t |-> t]
Unset == [type |-> "unset", s |-> <<>>, t |-> None]

\* the literal " 19:00" of the constructors
T1900 == TimeWord(19, 0)

\* ephem.Date(value), as the assignment Observer.date = value performs it:
\* None stands for ValueError
Date(v) ==
    IF v.type = "datetime" THEN v.t
    ELSE IF v.type # "str" THEN None
    ELSE IF Len(v.s) = 1 /\ v.s[1].k = "date" THEN v.s[1].n * DayLen
    ELSE IF Len(v.s) = 2 /\ v.s[1].k = "date" /\ v.s[2].k = "time"
         THEN v.s[1].n * DayLen + TimeOfDay(v.s[2])
    ELSE None

(***************************************************************************)
(* The observer and the night object.                                      *)
(***************************************************************************)
NoObserver == [date |-> None, horizon |-> ""]

\* ephem.Observer() starts at the current time; mmtObserver sets the USNO
\* horizon (both versions; the minimal one ignores its dateObs parameter)
mmtObserver(current) == [date |-> current, horizon |-> "-0:34"]

mmtTwilightDefinition_usno == "-0:34"

mmtTwilightDefinition == "-12"

Fields == {"sunset", "sunrise", "eveningTwilight", "morningTwilight",
           "moonrise", "moonset"}

NoNight == [dateObs |-> Unset, sunset |-> None, sunrise |-> None,
            eveningTwilight |-> None, morningTwilight |-> None,
            moonrise |-> None, moonset |-> None, mmtObserver |-> NoObserver]

Ins(op, f, x) == [op |-> op, f |-> f, x |-> x]

\* original_version: ephem.__init__, statement by statement
ephem_init ==
    << Ins("dateObs", "", ""),
       Ins("observer", "", ""),
       Ins("date", "", ""),
       Ins("horizon", "", "-0:34"),
       Ins("setting", "sunset", "Sun"),
       Ins("rising", "sunrise", "Sun"),
       Ins("horizon", "", mmtTwilightDefinition),
       Ins("setting", "eveningTwilight", "Sun"),
       Ins("rising", "morningTwilight", "Sun"),
       Ins("horizon", "", "-0:34"),
       Ins("rising", "moonrise", "Moon"),
       Ins("setting", "moonset", "Moon"),
       Ins("save", "", "") >>

\* the minimal version: MMTEphem.__init__, statement by statement
MMTEphem_init ==
    << Ins("append", "", ""),
       Ins("observer", "", ""),
       Ins("horizon", "", "-0:34"),
       Ins("setting", "sunset", "Sun"),
       Ins("rising", "sunrise", "Sun"),
       Ins("horizon", "", mmtTwilightDefinition),
       Ins("setting", "eveningTwilight", "Sun"),
       Ins("rising", "morningTwilight", "Sun"),
       Ins("rising", "moonrise", "Moon"),
       Ins("setting", "moonset", "Moon"),
       Ins("save", "", "") >>

Prog == IF version = "ephem" THEN ephem_init ELSE MMTEphem_init

Running == version # "none" /\ err = "none" /\ pc \in 1..Len(Prog)
Returned == version # "none" /\ err = "none" /\ pc = Len(Prog) + 1
Raised == err # "none"
Cur == Prog[pc]

\* the dateObs arguments the constructors are given
DateObsArgs ==
    {Str(<<DateWord(d)>>) : d \in 0..MaxDay}
    \cup {Str(<<DateWord(d), TimeWord(5, 0)>>) : d \in 0..MaxDay}
    \cup {Datetime(d * DayLen + h * Hour) : d \in 0..MaxDay, h \in {0, 5, 19}}

\* the current time when the observer is created
CurrentTimes == {DayLen + h * Hour : h \in {0, 5, 19}}

Init ==
    /\ pc = 0
    /\ version = "none"
    /\ arg = Unset
    /\ self = NoNight
    /\ mmt = NoObserver
    /\ queries = <<>>
    /\ err = "none"
    /\ built = NoNight
    /\ curves = <<>>

\* a caller calls ephem(dateObs) or MMTEphem(dateObs)
Construct(v, d) ==
    /\ version = "none"
    /\ version' = v
    /\ arg' = d
    /\ pc' = 1
    /\ UNCHANGED <<self, mmt, queries, err, built, curves>>

\* ephem.__init__: if type(dateObs) == str: dateObs = dateObs.split()[0] + " 19:00"
\*                 self.dateObs = dateObs
SetDateObs ==
    /\ Running /\ Cur.op = "dateObs"
    /\ self' = [self EXCEPT !.dateObs =
                    IF arg.type = "str" THEN Str(<<Head(arg.s), T1900>>) ELSE arg]
    /\ pc' = pc + 1
    /\ UNCHANGED <<version, arg, mmt, queries, err, built, curves>>

\* MMTEphem.__init__: self.dateObs = dateObs + " 19:00" (TypeError unless str)
AppendDateObs ==
    /\ Running /\ Cur.op = "append"
    /\ IF arg.type = "str"
       THEN /\ self' = [self EXCEPT !.dateObs = Str(Append(arg.s, T1900))]
            /\ pc' = pc + 1
            /\ err' = err
       ELSE /\ err' = "TypeError"
            /\ UNCHANGED <<self, pc>>
    /\ UNCHANGED <<version, arg, mmt, queries, built, curves>>

\* mmt = mmtObserver()
MakeObserver ==
    /\ Running /\ Cur.op = "observer"
    /\ \E current \in CurrentTimes : mmt' = mmtObserver(current)
    /\ pc' = pc + 1
    /\ UNCHANGED <<version, arg, self, queries, err, built, curves>>

\* mmt.date = self.dateObs
SetDate ==
    /\ Running /\ Cur.op = "date"
    /\ IF Date(self.dateObs) = None
       THEN /\ err' = "ValueError"
            /\ UNCHANGED <<mmt, pc>>
       ELSE /\ mmt' = [mmt EXCEPT !.date = Date(self.dateObs)]
            /\ pc' = pc + 1
            /\ err' = err
    /\ UNCHANGED <<version, arg, self, queries, built, curves>>

\* mmt.horizon = ...
SetHorizon ==
    /\ Running /\ Cur.op = "horizon"
    /\ mmt' = [mmt EXCEPT !.horizon = Cur.x]
    /\ pc' = pc + 1
    /\ UNCHANGED <<version, arg, self, queries, err, built, curves>>

\* variant: a failed search is caught and the instant 0 stored in its place
StoreOrRaise_default(night, f, r) ==
    [night |-> [night EXCEPT ![f] = IF r = None THEN 0 ELSE r],
     err |-> "none", pc |-> pc + 1]

\* self.<field> = mmt.next_...(body): the value is stored, or the library's
\* exception leaves __init__ (there is no try/except around any query)
StoreOrRaise(night, f, r) ==
    IF r = None
    THEN [night |-> night, err |-> "CircumpolarError", pc |-> pc]
    ELSE [night |-> [night EXCEPT ![f] = r], err |-> "none", pc |-> pc + 1]

\* one rise/set query; the library either finds the crossing or raises
Query ==
    /\ Running /\ Cur.op \in {"setting", "rising"}
    /\ \E found \in BOOLEAN :
          LET r == IF ~found THEN None
                   ELSE IF Cur.op = "setting" THEN next_setting(mmt, Cur.x)
                   ELSE next_rising(mmt, Cur.x)
              o == StoreOrRaise(self, Cur.f, r)
          IN  /\ self' = o.night
              /\ err' = o.err
              /\ pc' = o.pc
              /\ queries' = Append(queries,
                                [f |-> Cur.f, body |-> Cur.x, op |-> Cur.op,
                                 date |-> mmt.date, horizon |-> mmt.horizon,
                                 r |-> r])
    /\ UNCHANGED <<version, arg, mmt, built, curves>>

\* self.mmtObserver = mmt; the constructor returns: the local name mmt is
\* gone and the observer lives on as self.mmtObserver (built records the
\* night as it is returned)
Save ==
    /\ Running /\ Cur.op = "save"
    /\ self' = [self EXCEPT !.mmtObserver = mmt]
    /\ mmt' = NoObserver
    /\ built' = self'
    /\ pc' = pc + 1
    /\ UNCHANGED <<version, arg, queries, err, curves>>

(***************************************************************************)
(* Observability curves (original_version).                                *)
(***************************************************************************)
\* the targets the curves are built for
Targets == { [ra |-> "8:00:00", dec |-> "30:00:00"],
             [ra |-> "8:00:00", dec |-> "31:41:20"],
             [ra |-> "8:30:00", dec |-> "30:27:20"],
             [ra |-> "10:00:00", dec |-> "11:41:20"] }

\* variant: the date is assigned to the night (mmt.dateObs) instead of to its
\* observer, which is left where the previous statement put it
mmtAltAz_dateObs(m, ra, dec, dateTime) ==
    LET m2 == [m EXCEPT !.dateObs = Datetime(dateTime)]
        star == compute(ra, dec, m2.mmtObserver)
    IN  [mmt |-> m2, alt |-> star.alt, az |-> star.az,
         at |-> m2.mmtObserver.date]

\* variant: the star is computed before the observer's date is set
mmtAltAz_stale(m, ra, dec, dateTime) ==
    LET star == compute(ra, dec, m.mmtObserver)
        m2 == [m EXCEPT !.mmtObserver.date = dateTime]
    IN  [mmt |-> m2, alt |-> star.alt, az |-> star.az,
         at |-> m.mmtObserver.date]

\* mmtAltAz(mmt, ra, dec, dateTime): sets the date of the night's observer,
\* then computes the star there ("at" records the observer's date the
\* computation read)
mmtAltAz(m, ra, dec, dateTime) ==
    LET m2 == [m EXCEPT !.mmtObserver.date = dateTime]
        star == compute(ra, dec, m2.mmtObserver)
    IN  [mmt |-> m2, alt |-> star.alt, az |-> star.az,
         at |-> m2.mmtObserver.date]

\* variant: the date is assigned to the night (mmt.dateObs) instead of to its
\* observer
mmtParAngle_dateObs(m, ra, dec, dateTime) ==
    LET m2 == [m EXCEPT !.dateObs = Datetime(dateTime)]
        star == compute(ra, dec, m2.mmtObserver)
    IN  [mmt |-> m2, parAngle |-> star.parallactic_angle,
         at |-> m2.mmtObserver.date]

\* mmtParAngle(mmt, ra, dec, dateTime)
mmtParAngle(m, ra, dec, dateTime) ==
    LET m2 == [m EXCEPT !.mmtObserver.date = dateTime]
        star == compute(ra, dec, m2.mmtObserver)
    IN  [mmt |-> m2, parAngle |-> star.parallactic_angle,
         at |-> m2.mmtObserver.date]

\* 1.0 / math.cos(za) in hundredths, za in arc minutes (the cosine by
\* Bhaskara's rational approximation); at za = 90 degrees the float cosine is
\* 6.1e-17 and the quotient a very large positive number
AtHorizon == 16331239 * 100

Sec(za) ==
    LET x == 90 * 60 - za
        a == IF x < 0 THEN 0 - x ELSE x
        P == (a * (180 * 60 - a)) \div 36
        mag == IF P = 0 THEN AtHorizon ELSE (100 * (4050000 - P)) \div (4 * P)
    IN  IF x < 0 THEN 0 - mag ELSE mag

\* alt2airmass(alt)
alt2airmass(alt) ==
    LET zenithAngle == 90 * 60 - alt
    IN  Sec(zenithAngle)

airmassCutoff == 180

\* variant: the cutoff itself counts as observable
targetObservability_le(time, airmass) ==
    IF airmass > 100 /\ airmass <= airmassCutoff THEN 1 ELSE 0

\* targetObservability(time, airmass)
targetObservability(time, airmass) ==
    IF airmass > 100 /\ airmass < airmassCutoff THEN 1 ELSE 0

\* variant: the loop runs while timeArray[-1] <= endTime
RECURSIVE GrowTimeArray_le(_, _, _)
GrowTimeArray_le(timeArray, endTime, timedelta) ==
    IF timeArray[Len(timeArray)] <= endTime
    THEN GrowTimeArray_le(Append(timeArray, timeArray[Len(timeArray)] + timedelta),
                          endTime, timedelta)
    ELSE timeArray

\* variant: the last instant is clamped to endTime
RECURSIVE GrowTimeArray_clamped(_, _, _)
GrowTimeArray_clamped(timeArray, endTime, timedelta) ==
    IF timeArray[Len(timeArray)] < endTime
    THEN GrowTimeArray_clamped(
             Append(timeArray,
                    IF timeArray[Len(timeArray)] + timedelta > endTime
                    THEN endTime ELSE timeArray[Len(timeArray)] + timedelta),
             endTime, timedelta)
    ELSE timeArray

\* while (timeArray[-1] < endTime): timeArray.append(timeArray[-1]+timedelta)
RECURSIVE GrowTimeArray(_, _, _)
GrowTimeArray(timeArray, endTime, timedelta) ==
    IF timeArray[Len(timeArray)] < endTime
    THEN GrowTimeArray(Append(timeArray, timeArray[Len(timeArray)] + timedelta),
                       endTime, timedelta)
    ELSE timeArray

airmass_timedelta == 5
parAngle_timedelta == 5

\* for time in timeArray: alt, az = mmtAltAz(...); airmass.append(alt2airmass(alt))
RECURSIVE AirmassLoop(_, _, _, _, _, _, _)
AirmassLoop(m, ra, dec, timeArray, i, airmass, at) ==
    IF i > Len(timeArray)
    THEN [mmt |-> m, timeArray |-> timeArray, airmass |-> airmass, at |-> at]
    ELSE LET r == mmtAltAz(m, ra, dec, timeArray[i])
         IN  AirmassLoop(r.mmt, ra, dec, timeArray, i + 1,
                         Append(airmass, alt2airmass(r.alt)), Append(at, r.at))

\* airmassCurve(mmt, ra, dec)
airmassCurve(m, ra, dec) ==
    LET startTime == m.sunset
        endTime == m.sunrise
        timeArray == GrowTimeArray(<<startTime>>, endTime, airmass_timedelta)
    IN  AirmassLoop(m, ra, dec, timeArray, 1, <<>>, <<>>)

\* for time in timeArray: parAngle = mmtParAngle(...); airmass.append(parAngle)
RECURSIVE ParAngleLoop(_, _, _, _, _, _, _)
ParAngleLoop(m, ra, dec, timeArray, i, airmass, at) ==
    IF i > Len(timeArray)
    THEN [mmt |-> m, timeArray |-> timeArray, airmass |-> airmass, at |-> at]
    ELSE LET r == mmtParAngle(m, ra, dec, timeArray[i])
         IN  ParAngleLoop(r.mmt, ra, dec, timeArray, i + 1,
                          Append(airmass, r.parAngle), Append(at, r.at))

\* parAngleCurve(mmt, ra, dec)
parAngleCurve(m, ra, dec) ==
    LET startTime == m.sunset
        endTime == m.sunrise
        timeArray == GrowTimeArray(<<startTime>>, endTime, parAngle_timedelta)
    IN  ParAngleLoop(m, ra, dec, timeArray, 1, <<>>, <<>>)

\* ObjEphem.__init__(ra, dec, dateObs, mmtEphem): the object built and the
\* night as the constructor leaves it (timeAirmass records the grid of the
\* airmass pass, which the constructor drops; atAirmass and atParAngle record
\* the observer's date each sample was computed at)
ObjEphem_init(ra, dec, mmtEphem) ==
    LET m0 == [mmtEphem EXCEPT !.mmtObserver.date = Date(mmtEphem.dateObs)]
        a == airmassCurve(m0, ra, dec)
        p == parAngleCurve(a.mmt, ra, dec)
        timeArray == p.timeArray
        observability ==
            [ii \in 1..Len(a.airmass) |->
                 targetObservability(timeArray[ii], a.airmass[ii])]
    IN  [mmt |-> p.mmt,
         obj |-> [dateObs |-> mmtEphem.dateObs,
                  observable |-> observability,
                  ra |-> ra, dec |-> dec,
                  time |-> timeArray,
                  airmass |-> a.airmass,
                  parAngle |-> p.airmass,
                  timeAirmass |-> a.timeArray,
                  atAirmass |-> a.at,
                  atParAngle |-> p.at]]

\* a caller builds ObjEphem(ra, dec, dateObs, night) from the night that
\* ephem(dateObs) returned
ObjEphem ==
    /\ Returned /\ version = "ephem"
    /\ Len(curves) < MaxCurves
    /\ \E tg \in Targets :
          LET o == ObjEphem_init(tg.ra, tg.dec, self)
          IN  /\ self' = o.mmt
              /\ curves' = Append(curves, o.obj)
    /\ UNCHANGED <<pc, version, arg, mmt, queries, err, built>>

Next ==
    \/ \E v \in {"ephem", "MMTEphem"}, d \in DateObsArgs : Construct(v, d)
    \/ SetDateObs
    \/ AppendDateObs
    \/ MakeObserver
    \/ SetDate
    \/ SetHorizon
    \/ Query
    \/ Save
    \/ ObjEphem

Spec == Init /\ [][Next]_vars

(***************************************************************************)
(* Properties.                                                             *)
(***************************************************************************)
\* the calendar date of the constructor's argument, and 19:00 on that date
CalendarDay == IF arg.type = "str" THEN arg.s[1].n ELSE arg.t \div DayLen
Anchor == CalendarDay * DayLen + 19 * Hour

Queried(f) == \E i \in 1..Len(queries) : queries[i].f = f
AllAtAnchor == \A i \in 1..Len(queries) : queries[i].date = Anchor
Curves == {curves[i] : i \in 1..Len(curves)}
Last(sq) == sq[Len(sq)]
CeilDiv(a, b) == 0 - ((0 - a) \div b)
Max(a, b) == IF a >= b THEN a ELSE b

\* C1: every rise/set query of a construction is issued with the observer's
\* date equal to 19:00 on the calendar date given, whatever the kind of the
\* dateObs argument and whichever constructor runs.
C1_QueriesAtAnchor == AllAtAnchor

\* C2: at each query the observer's horizon is the one its event is defined
\* by ("-0:34" for sunset, sunrise, moonrise and moonset, "-12" for the two
\* twilights), and an instant once stored is not changed by a later switch of
\* the horizon.
C2_HorizonPerQuery ==
    \A i \in 1..Len(queries) :
        /\ queries[i].horizon =
               IF queries[i].f \in {"eveningTwilight", "morningTwilight"}
               THEN "-12" ELSE "-0:34"
        /\ queries[i].r # None => self[queries[i].f] = queries[i].r

\* C3 as claimed: a night whose queries were issued from the 19:00 anchor has
\* sunset < sunrise < sunset + 24 h with the twilights outside:
\* eveningTwilight < sunset and morningTwilight > sunrise.
C3_TwilightOutside ==
    (Returned /\ AllAtAnchor) =>
        /\ self.sunset < self.sunrise
        /\ self.sunrise < self.sunset + DayLen
        /\ self.eveningTwilight < self.sunset
        /\ self.morningTwilight > self.sunrise

\* the Sun is above the standard horizon at every instant a query was issued
\* from
SunUpAtQueries ==
    \A i \in 1..Len(queries) :
        SunAlt(queries[i].date) >= HorizonArcmin("-0:34")

\* C3 as amended: a night whose queries were issued from an instant at which
\* the Sun is above the standard horizon (as at the 19:00 anchor, local noon)
\* has the twilights inside the night:
\* sunset < eveningTwilight < morningTwilight < sunrise < sunset + 24 h.
C3_TwilightInside ==
    (Returned /\ SunUpAtQueries) =>
        /\ self.sunset < self.eveningTwilight
        /\ self.eveningTwilight < self.morningTwilight
        /\ self.morningTwilight < self.sunrise
        /\ self.sunrise < self.sunset + DayLen

C3_Witness ==
    /\ Returned /\ version = "ephem" /\ arg.type = "str"
    /\ AllAtAnchor /\ SunUpAtQueries
    /\ Len(queries) = 6
    /\ self.sunset < self.eveningTwilight

\* the grid g starts at sunset, advances by exactly 5 minutes, stays before
\* sunrise up to its last instant, which is at or after sunrise
IsGrid(g, sunset, sunrise) ==
    /\ Len(g) >= 1
    /\ g[1] = sunset
    /\ \A i \in 1..(Len(g) - 1) : g[i + 1] - g[i] = 5 /\ g[i] < sunrise
    /\ Last(g) >= sunrise

\* C4: the grid of the airmass pass and the grid of the parallactic-angle
\* pass of every curve are sunset, sunset + 5 min, ... up to the first grid
\* point at or after sunrise, which is not clamped to sunrise.
C4_TimeGrid ==
    \A c \in Curves :
        /\ IsGrid(c.timeAirmass, built.sunset, built.sunrise)
        /\ IsGrid(c.time, built.sunset, built.sunrise)

C4_Witness ==
    \E c \in Curves :
        /\ Len(c.time) > 2
        /\ Last(c.time) > built.sunrise
        /\ Last(c.timeAirmass) > built.sunrise

Ascending(g) == \A i \in 1..(Len(g) - 1) : g[i] < g[i + 1]

\* C5 as claimed: every curve has ceil((sunrise - sunset) / 5 min) + 1
\* samples, strictly ascending, also when sunrise is not later than sunset.
C5_SampleCount ==
    \A c \in Curves :
        /\ Len(c.time) = CeilDiv(built.sunrise - built.sunset, 5) + 1
        /\ Ascending(c.time)

\* C5 as amended: every curve has max(0, ceil((sunrise - sunset) / 5 min)) + 1
\* samples, strictly ascending; a night whose sunrise is not later than its
\* sunset gives the single sample at sunset.
C5_SampleCountAmended ==
    \A c \in Curves :
        /\ Len(c.time) = Max(0, CeilDiv(built.sunrise - built.sunset, 5)) + 1
        /\ Len(c.airmass) = Len(c.time)
        /\ Ascending(c.time)
        /\ built.sunrise <= built.sunset => c.time = <<built.sunset>>

C5_Witness ==
    \E c \in Curves :
        /\ built.sunrise > built.sunset
        /\ (built.sunrise - built.sunset) % 5 = 0
        /\ Len(c.time) = (built.sunrise - built.sunset) \div 5 + 1

C7_NightUnchanged == Len(curves) > 0 => self = built

\* C7 as amended: building curves leaves dateObs, the six instants and the
\* horizon of the saved observer as the constructor returned them; the date
\* of the saved observer is overwritten, and is left at the last grid instant.
C7_NightUnchangedButDate ==
    Len(curves) > 0 =>
        /\ self.dateObs = built.dateObs
        /\ \A f \in Fields : self[f] = built[f]
        /\ self.mmtObserver.horizon = built.mmtObserver.horizon
        /\ self.mmtObserver.date = Last(Last(curves).time)

C7_Witness ==
    /\ Len(curves) >= 2
    /\ self.mmtObserver.date # built.mmtObserver.date
    /\ self.sunset = built.sunset

SameCurve(c, d) ==
    /\ c.time = d.time
    /\ c.airmass = d.airmass
    /\ c.parAngle = d.parAngle
    /\ c.observable = d.observable

\* C8: two curves built from the same night for the same ra and dec are
\* identical, whether built one after the other or with a curve for another
\* target built in between.
C8_Deterministic ==
    \A i, j \in 1..Len(curves) :
        (curves[i].ra = curves[j].ra /\ curves[i].dec = curves[j].dec)
            => SameCurve(curves[i], curves[j])

C8_Witness ==
    /\ Len(curves) = 3
    /\ curves[1].ra = curves[3].ra /\ curves[1].dec = curves[3].dec
    /\ curves[2].ra # curves[1].ra
    /\ Len(curves[1].time) > 1
    /\ SameCurve(curves[1], curves[3])
    /\ ~SameCurve(curves[1], curves[2])

\* C9: when a search fails, the constructor ends with the error at that
\* query: it returns no night, asks nothing again or further, and stores
\* nothing in place of the missing instant; a night that is returned holds
\* the six instants the six queries found.
C9_FailurePropagates ==
    /\ \A i \in 1..Len(queries) :
           queries[i].r = None =>
               /\ i = Len(queries)
               /\ err = "CircumpolarError"
               /\ ~Returned
               /\ built = NoNight
               /\ curves = <<>>
               /\ self[queries[i].f] = None
    /\ \A i, j \in 1..Len(queries) : queries[i].f = queries[j].f => i = j
    /\ Returned =>
           /\ Len(queries) = 6
           /\ \A i \in 1..6 : queries[i].r # None /\ built[queries[i].f] = queries[i].r

C9_Witness ==
    /\ err = "CircumpolarError"
    /\ Len(queries) = 3
    /\ queries[3].r = None
    /\ queries[2].r # None

\* C10: in every curve the four sequences have one length, and sample i of
\* the airmass pass and sample i of the parallactic-angle pass were each
\* computed with the observer's date equal to time[i].
C10_SameInstant ==
    \A c \in Curves :
        /\ Len(c.airmass) = Len(c.time)
        /\ Len(c.parAngle) = Len(c.time)
        /\ Len(c.observable) = Len(c.time)
        /\ \A i \in 1..Len(c.time) :
               /\ c.atAirmass[i] = c.time[i]
               /\ c.atParAngle[i] = c.time[i]
               /\ c.airmass[i] =
                      alt2airmass(compute(c.ra, c.dec,
                                          [date |-> c.time[i], horizon |-> "-0:34"]).alt)
               /\ c.parAngle[i] =
                      compute(c.ra, c.dec,
                              [date |-> c.time[i], horizon |-> "-0:34"]).parallactic_angle

C10_Witness ==
    \E c \in Curves :
        /\ Len(c.time) > 2
        /\ c.airmass[1] # c.airmass[2]
        /\ c.atParAngle[2] = c.time[2]

=============================================================================
